---------------------------- MODULE Spec2Model ----------------------------
(***************************************************************************)
(* Rating and ranking engine of the billiards league (src/app.js).        *)
(*                                                                         *)
(* JavaScript Numbers are IEEE-754 binary floating point values rounded    *)
(* to nearest, ties to even.  The model keeps that arithmetic operation by *)
(* operation and narrows the significand from 53 bits to Precision bits;   *)
(* the exponent is an unbounded integer (the bounded inputs never reach    *)
(* binary64's exponent limits, so there is no Infinity and no NaN).  A     *)
(* Number is the pair <<m, e>> of value m * 2^e, normalised so that        *)
(* 2^(Precision-1) <= |m| < 2^Precision, or <<0, 0>> for zero.             *)
(***************************************************************************)
EXTENDS Integers, Sequences, FiniteSets, TLC

VARIABLES
  players,        \* state.data.players: sequence of [id, name]
  championships,  \* state.data.championships: sequence of championship records
  ui,             \* the other fields of state, and what the DOM last rendered holds
  call,           \* the function or handler last called, with its arguments
  ret             \* what that call returned

vars == <<players, championships, ui, call, ret>>

---------------------------------------------------------------------------
(* Bounds of the model *)

Precision == 13         \* significand bits of a Number (binary64 has 53)
MaxPoints == 3          \* points fed to getTournamentScore range over 0..MaxPoints
MaxSaldoExcess == 5     \* saldos range SALDO_CAP_PER_TOURNAMENT + MaxSaldoExcess either side
MaxParticipants == 3    \* results of the championship given to computeChampionshipContexts
MaxSeriesLen == 4       \* length of the series given to computeMovingAverage
MaxWindow == 5          \* window sizes given to computeMovingAverage range over 0..MaxWindow
MaxPlayers == 2         \* players the form may have created
MaxCreated == 1         \* championships the form may have created

(* Program constants (src/app.js lines 4-8) *)

RATING_REGRESSION_K == 2
SALDO_CAP_PER_TOURNAMENT == 25
TOURNAMENT_REFERENCE_SIZE == 16

---------------------------------------------------------------------------
(* Number: floating point arithmetic *)

Pow2(k) == 2 ^ k
Abs(n) == IF n < 0 THEN -n ELSE n
Sgn(n) == IF n < 0 THEN -1 ELSE IF n > 0 THEN 1 ELSE 0

\* number of bits of the positive integer n
RECURSIVE BitLenFrom(_, _)
BitLenFrom(n, k) == IF n < 2 THEN k ELSE BitLenFrom(n \div 2, k + 1)
BitLen(n) == BitLenFrom(n, 1)

\* Round for q2, the kept bits after rounding, when k bits were cut off
RoundCarry(M, E, k, q2) ==
  IF q2 = Pow2(Precision)
  THEN <<Sgn(M) * Pow2(Precision - 1), E + k + 1>>
  ELSE <<Sgn(M) * q2, E + k>>

\* Round for a significand cut into q, the bits kept, and r, the k bits cut off:
\* up if r is above half a unit of q, or is half a unit and q is odd
RoundCut(M, E, k, q, r) ==
  RoundCarry(M, E, k,
             IF r > Pow2(k - 1) \/ (r = Pow2(k - 1) /\ q % 2 = 1) THEN q + 1 ELSE q)

\* Round for a significand of L bits
RoundBits(M, E, L) ==
  IF L <= Precision
  THEN <<M * Pow2(Precision - L), E - (Precision - L)>>
  ELSE RoundCut(M, E, L - Precision,
                Abs(M) \div Pow2(L - Precision), Abs(M) % Pow2(L - Precision))

\* The Number nearest to the exact value M * 2^E (round to nearest, ties to even).
Round(M, E) == IF M = 0 THEN <<0, 0>> ELSE RoundBits(M, E, BitLen(Abs(M)))

FromInt(n) == Round(n, 0)
Zero == <<0, 0>>
FNeg(a) == <<-a[1], a[2]>>

\* hi + lo for nonzero terms, hi the one of the larger exponent
FAddAligned(hi, lo) ==
  IF hi[2] - lo[2] >= Precision + 2
  THEN hi                       \* lo is below a quarter of hi's last place
  ELSE Round(hi[1] * Pow2(hi[2] - lo[2]) + lo[1], lo[2])

\* a + b
FAdd(a, b) ==
  IF a[1] = 0 THEN b
  ELSE IF b[1] = 0 THEN a
  ELSE FAddAligned(IF a[2] >= b[2] THEN a ELSE b, IF a[2] >= b[2] THEN b ELSE a)

\* a - b
FSub(a, b) == FAdd(a, FNeg(b))

\* a * b
FMul(a, b) == Round(a[1] * b[1], a[2] + b[2])

\* a / b from n, the scaled magnitude of a: the quotient and a sticky bit, rounded
FDivScaled(a, b, n) ==
  Round(Sgn(a[1]) * Sgn(b[1])
          * (2 * (n \div Abs(b[1])) + (IF n % Abs(b[1]) = 0 THEN 0 ELSE 1)),
        a[2] - b[2] - Precision - 3)

\* a / b for b # 0: quotient to Precision + 2 bits and a sticky bit, then rounded
FDiv(a, b) ==
  IF a[1] = 0 THEN Zero ELSE FDivScaled(a, b, Abs(a[1]) * Pow2(Precision + 2))

RECURSIVE ISqrtFrom(_, _, _)
ISqrtFrom(n, bit, acc) ==
  IF bit = 0 THEN acc
  ELSE ISqrtFrom(n, bit \div 2,
                 IF (acc + bit) * (acc + bit) <= n THEN acc + bit ELSE acc)

\* floor of the square root of the integer n < 2^30
ISqrt(n) == ISqrtFrom(n, Pow2(14), 0)

\* the root s of the scaled significand n, with a sticky bit, rounded
FSqrtRoot(n, s, E) == Round(2 * s + (IF s * s = n THEN 0 ELSE 1), E)

\* Math.sqrt(a) with the significand scaled by k bits to an even exponent
FSqrtScaled(a, k) ==
  FSqrtRoot(a[1] * Pow2(k), ISqrt(a[1] * Pow2(k)), ((a[2] - k) \div 2) - 1)

\* Math.sqrt(a) for a >= 0, correctly rounded
FSqrt(a) ==
  IF a[1] <= 0 THEN Zero
  ELSE FSqrtScaled(a, IF (a[2] - (Precision + 1)) % 2 = 0
                      THEN Precision + 1 ELSE Precision + 2)

\* the sign of a - b: -1, 0 or 1 (a rounded difference keeps the exact sign)
FCmp(a, b) == Sgn(FSub(a, b)[1])
FLess(a, b) == FCmp(a, b) < 0
FLeq(a, b) == FCmp(a, b) <= 0

\* Math.max, Math.min
FMax(a, b) == IF FLess(a, b) THEN b ELSE a
FMin(a, b) == IF FLess(b, a) THEN b ELSE a

\* a decimal literal num/den of the source, e.g. 0.1 = Decimal(1, 10)
Decimal(num, den) == FDiv(FromInt(num), FromInt(den))

\* Math.log(k) for the integers the engine passes it (k = 1 + championshipsCount):
\* the natural logarithm in units of 2^-28, rounded to a Number
LogTable ==
  <<0, 186065279, 294906491, 372130559, 432030200, 480971770,
    522351278, 558195838, 589812981>>
FLog(k) == Round(LogTable[k], -28)

\* ToIntegerOrInfinity(a): a with its fraction dropped, as an integer
FTrunc(a) ==
  IF a[2] >= 0 THEN a[1] * Pow2(a[2])
  ELSE Sgn(a[1]) * (Abs(a[1]) \div Pow2(-a[2]))

\* Math.floor(a), as an integer
FFloor(a) ==
  IF FromInt(FTrunc(a)) = a \/ a[1] > 0 THEN FTrunc(a) ELSE FTrunc(a) - 1

---------------------------------------------------------------------------
(* Strings: a string is a sequence of one-character strings.  localeCompare *)
(* is the collation of the characters the model uses: first by primary      *)
(* weight (the base letter; space < "-" < digits < letters), then by        *)
(* secondary weight (accent), then by tertiary weight (upper case).         *)

DigitCharOf == <<"0", "1", "2", "3", "4", "5", "6", "7", "8", "9">>

Primary(c) ==
  CASE c = " " -> 1
    [] c = "-" -> 2
    [] c = ":" -> 3
    [] c = "0" -> 10 [] c = "1" -> 11 [] c = "2" -> 12 [] c = "3" -> 13
    [] c = "4" -> 14 [] c = "5" -> 15 [] c = "6" -> 16 [] c = "7" -> 17
    [] c = "8" -> 18 [] c = "9" -> 19
    [] c \in {"a", "A", "á"} -> 30
    [] c \in {"b", "B"} -> 31
    [] c \in {"T"} -> 40
    [] c \in {"Z"} -> 41
Secondary(c) == IF c = "á" THEN 1 ELSE 0
Tertiary(c) == IF c \in {"A", "B"} THEN 1 ELSE 0

RECURSIVE LexCompare(_, _)
\* lexicographic comparison of two sequences of integers: -1, 0 or 1
LexCompare(a, b) ==
  IF a = <<>> THEN (IF b = <<>> THEN 0 ELSE -1)
  ELSE IF b = <<>> THEN 1
  ELSE IF Head(a) # Head(b) THEN (IF Head(a) < Head(b) THEN -1 ELSE 1)
  ELSE LexCompare(Tail(a), Tail(b))

\* String.prototype.localeCompare
localeCompare(a, b) ==
  LET p == LexCompare([i \in DOMAIN a |-> Primary(a[i])], [i \in DOMAIN b |-> Primary(b[i])])
      s == LexCompare([i \in DOMAIN a |-> Secondary(a[i])], [i \in DOMAIN b |-> Secondary(b[i])])
      t == LexCompare([i \in DOMAIN a |-> Tertiary(a[i])], [i \in DOMAIN b |-> Tertiary(b[i])])
  IN IF p # 0 THEN p ELSE IF s # 0 THEN s ELSE t

RECURSIVE trimStart(_)
trimStart(str) ==
  IF str # <<>> /\ Head(str) = " " THEN trimStart(Tail(str)) ELSE str

RECURSIVE trimEnd(_)
trimEnd(str) ==
  IF str # <<>> /\ str[Len(str)] = " " THEN trimEnd(SubSeq(str, 1, Len(str) - 1))
  ELSE str

\* String.prototype.trim
trim(str) == trimEnd(trimStart(str))

RECURSIVE collapseSpaces(_)
\* str.replace(/\s+/g, " ")
collapseSpaces(str) ==
  IF str = <<>> THEN <<>>
  ELSE IF Head(str) = " " THEN <<" ">> \o collapseSpaces(trimStart(str))
  ELSE <<Head(str)>> \o collapseSpaces(Tail(str))

\* String.prototype.toLowerCase
toLowerCase(str) ==
  [i \in DOMAIN str |->
     CASE str[i] = "A" -> "a"
       [] str[i] = "B" -> "b"
       [] str[i] = "T" -> "t"
       [] str[i] = "Z" -> "z"
       [] OTHER -> str[i]]

normalizeName(name) == toLowerCase(collapseSpaces(trim(name)))

\* String(name).trim().replace(/\s+/g, " "): the name a player is stored under
cleanName(name) == collapseSpaces(trim(name))

IsDigits(str) == \A i \in DOMAIN str : str[i] \in {DigitCharOf[d] : d \in 1..10}

RECURSIVE DigitsValue(_, _)
DigitsValue(str, acc) ==
  IF str = <<>> THEN acc
  ELSE DigitsValue(Tail(str),
                   10 * acc + (CHOOSE d \in 0..9 : DigitCharOf[d + 1] = Head(str)))

\* the index of the first "." of body, or one past its end
FirstDot(body) ==
  IF \A i \in DOMAIN body : body[i] # "." THEN Len(body) + 1
  ELSE CHOOSE i \in DOMAIN body :
         body[i] = "." /\ \A j \in DOMAIN body : body[j] = "." => i <= j

\* the value of a numeral from its sign, its whole part and its fraction
NumberFromParts(negative, whole, fraction) ==
  IF IsDigits(whole) /\ IsDigits(fraction) /\ Len(whole) + Len(fraction) > 0
  THEN [nan |-> FALSE,
        num |-> (IF negative THEN -1 ELSE 1) * DigitsValue(whole \o fraction, 0),
        den |-> 10 ^ Len(fraction)]
  ELSE [nan |-> TRUE, num |-> 0, den |-> 1]

\* the value of a numeral from its sign and what follows the sign
NumberFromBody(negative, body) ==
  NumberFromParts(negative,
                  SubSeq(body, 1, FirstDot(body) - 1),
                  SubSeq(body, FirstDot(body) + 1, Len(body)))

\* Number(t) for a string without white space around it
NumberFromTrimmed(t) ==
  IF t = <<>> THEN [nan |-> FALSE, num |-> 0, den |-> 1]
  ELSE NumberFromBody(Head(t) = "-", IF Head(t) = "-" THEN Tail(t) ELSE t)

\* Number(str) for a string: [nan, num, den] with the value num / den, den a power
\* of ten.  An empty or blank string is 0; a decimal numeral with an optional
\* sign and an optional fraction is its value; anything else is NaN.
StringToNumber(str) == NumberFromTrimmed(trim(str))

\* parseNumber(value): null (here nan) for "" and for what Number does not parse
parseNumber(value) ==
  IF value = <<>> THEN [nan |-> TRUE, num |-> 0, den |-> 1]
  ELSE StringToNumber(value)

---------------------------------------------------------------------------
(* The rating engine *)

\* Number(value) || 0 for the integer values the model stores in results
ToNumber(value) == FromInt(value)

OneTenth == Decimal(1, 10)
RELATIVE_Z_CAP == Decimal(25, 10)
RELATIVE_SCORE_SCALE == Decimal(25, 10)

\* capSaldoForRating with the lower bound left out
capSaldoForRating_UpperOnly(saldo) ==
  FMin(FromInt(SALDO_CAP_PER_TOURNAMENT), ToNumber(saldo))

capSaldoForRating(saldo) ==
  LET numericSaldo == ToNumber(saldo)
  IN FMax(FromInt(-SALDO_CAP_PER_TOURNAMENT),
          FMin(FromInt(SALDO_CAP_PER_TOURNAMENT), numericSaldo))

getTournamentScore(points, saldo) ==
  FAdd(ToNumber(points), FMul(capSaldoForRating(saldo), OneTenth))

clamp(value, min, max) == FMax(min, FMin(max, value))

RECURSIVE FSumFrom(_, _)
\* series.reduce((sum, value) => sum + value, sum0)
FSumFrom(sum0, series) ==
  IF series = <<>> THEN sum0
  ELSE FSumFrom(FAdd(sum0, Head(series)), Tail(series))

\* the variance divided by participants - 1
contextVariance_Sample(squares, participants) ==
  IF participants = 1 THEN Zero
  ELSE FDiv(FSumFrom(Zero, squares), FromInt(participants - 1))

\* variance: the mean of the squared differences
contextVariance(squares, participants) ==
  FDiv(FSumFrom(Zero, squares), FromInt(participants))

\* diff * diff of the reduce that sums the squared differences
squaredDiff(diff) == FMul(diff, diff)

\* the context of a championship from its scores and their mean
contextFromMean(scores, mean) ==
  [mean |-> mean,
   std |-> FSqrt(contextVariance([i \in DOMAIN scores |->
                                    squaredDiff(FSub(scores[i], mean))],
                                 Len(scores))),
   sizeWeight |-> FMin(FromInt(1),
                       FSqrt(FDiv(FromInt(Len(scores)),
                                  FromInt(TOURNAMENT_REFERENCE_SIZE))))]

\* the context of a championship from its scores
contextFromScores(scores) ==
  IF Len(scores) = 0
  THEN [mean |-> Zero, std |-> Zero, sizeWeight |-> Zero]
  ELSE contextFromMean(scores, FDiv(FSumFrom(Zero, scores), FromInt(Len(scores))))

\* the context computeChampionshipContexts stores for one championship
championshipContext(championship) ==
  contextFromScores([i \in DOMAIN championship.results |->
                       getTournamentScore(championship.results[i].points,
                                          championship.results[i].saldo)])

\* The Map from championship id to context: a later championship with the same
\* id replaces the earlier one's entry.
computeChampionshipContexts(chs) ==
  [id \in {chs[i].id : i \in DOMAIN chs} |->
     LET last == CHOOSE i \in DOMAIN chs :
                   /\ chs[i].id = id
                   /\ \A j \in DOMAIN chs : chs[j].id = id => j <= i
     IN championshipContext(chs[last])]

computeRelativeContribution(score, context) ==
  IF FLeq(context.std, Zero) THEN Zero
  ELSE LET zScore == FDiv(FSub(score, context.mean), context.std)
           cappedZScore == clamp(zScore, FNeg(RELATIVE_Z_CAP), RELATIVE_Z_CAP)
       IN FMul(FMul(cappedZScore, RELATIVE_SCORE_SCALE), context.sizeWeight)

RECURSIVE AllResults(_)
\* every result of every championship, in the order the nested forEach visits them,
\* each with the id of its championship
AllResults(chs) ==
  IF chs = <<>> THEN <<>>
  ELSE [i \in DOMAIN Head(chs).results |->
          [championshipId |-> Head(chs).id, result |-> Head(chs).results[i]]]
       \o AllResults(Tail(chs))

computeGlobalBaselineScore(chs) ==
  LET all == AllResults(chs)
      participations == Len(all)
      scoreTotal == FSumFrom(Zero, [i \in DOMAIN all |->
                       getTournamentScore(all[i].result.points, all[i].result.saldo)])
  IN IF participations <= 0 THEN Zero
     ELSE FDiv(scoreTotal, FromInt(participations))

computeRawRating(pointsTotal, saldoTotal, championshipsCount) ==
  IF championshipsCount <= 0 THEN Zero
  ELSE LET promedio == FDiv(pointsTotal, FromInt(championshipsCount))
           ajusteSaldo == FMul(saldoTotal, OneTenth)
           factorExp == FAdd(FromInt(1),
                             FMin(Decimal(15, 100),
                                  FMul(FLog(1 + championshipsCount), Decimal(5, 100))))
       IN FMul(FAdd(promedio, ajusteSaldo), factorExp)

\* applyRegressionToMean with the gate one participation too late
applyRegressionToMean_UpToTwo(rawRating, championshipsCount, baselineScore) ==
  IF championshipsCount > 2 THEN rawRating
  ELSE LET weight == FDiv(FromInt(championshipsCount),
                          FromInt(championshipsCount + RATING_REGRESSION_K))
       IN FAdd(FMul(rawRating, weight),
               FMul(baselineScore, FSub(FromInt(1), weight)))

\* applyRegressionToMean without the gate on exactly one participation
applyRegressionToMean_EveryCount(rawRating, championshipsCount, baselineScore) ==
  LET weight == FDiv(FromInt(championshipsCount),
                     FromInt(championshipsCount + RATING_REGRESSION_K))
  IN FAdd(FMul(rawRating, weight),
          FMul(baselineScore, FSub(FromInt(1), weight)))

applyRegressionToMean(rawRating, championshipsCount, baselineScore) ==
  IF championshipsCount # 1 THEN rawRating
  ELSE LET weight == FDiv(FromInt(championshipsCount),
                          FromInt(championshipsCount + RATING_REGRESSION_K))
       IN FAdd(FMul(rawRating, weight),
               FMul(baselineScore, FSub(FromInt(1), weight)))

\* the index of the first element of seq with the given field value, or 0
IndexOfPlayer(rows, playerId) ==
  IF \E i \in DOMAIN rows : rows[i].playerId = playerId
  THEN CHOOSE i \in DOMAIN rows :
         /\ rows[i].playerId = playerId
         /\ \A j \in DOMAIN rows : rows[j].playerId = playerId => i <= j
  ELSE 0

RECURSIVE statsMapFrom(_, _, _)
\* The per-player rows of statsMap, in the order the Map holds them (first
\* appearance), after the results in `all` have been added to `rows`.
statsMapFrom(rows, all, championshipContexts) ==
  IF all = <<>> THEN rows
  ELSE LET result == Head(all).result
           context == championshipContexts[Head(all).championshipId]
           rows1 == IF IndexOfPlayer(rows, result.playerId) = 0
                    THEN Append(rows, [playerId |-> result.playerId,
                                       championships |-> 0,
                                       pointsTotal |-> Zero,
                                       saldoTotalRaw |-> Zero,
                                       saldoTotalForRating |-> Zero,
                                       relativeTotal |-> Zero])
                    ELSE rows
           k == IndexOfPlayer(rows1, result.playerId)
           row == rows1[k]
           tournamentScore == getTournamentScore(result.points, result.saldo)
           updated ==
             [row EXCEPT
                !.championships = @ + 1,
                !.pointsTotal = FAdd(@, ToNumber(result.points)),
                !.saldoTotalRaw = FAdd(@, ToNumber(result.saldo)),
                !.saldoTotalForRating = FAdd(@, capSaldoForRating(result.saldo)),
                !.relativeTotal =
                   FAdd(@, computeRelativeContribution(tournamentScore, context))]
       IN statsMapFrom([rows1 EXCEPT ![k] = updated], Tail(all), championshipContexts)

\* players.find with a test that every player passes: the first player, if any
FindPlayer_AnyPlayer(directory, playerId) == IF directory = <<>> THEN 0 ELSE 1

\* players.find((p) => p.id === playerId): the index of the player, or 0
FindPlayer(directory, playerId) ==
  IF \E i \in DOMAIN directory : directory[i].id = playerId
  THEN CHOOSE i \in DOMAIN directory :
         /\ directory[i].id = playerId
         /\ \A j \in DOMAIN directory : directory[j].id = playerId => i <= j
  ELSE 0

\* The entry computeRanking pushes for one row of statsMap.  adjustedRating is
\* the local constant of line 281, kept beside the fields the code returns.
rankingEntry(row, player, baselineScore) ==
  LET promedio == FDiv(row.pointsTotal, FromInt(row.championships))
      rawRating == computeRawRating(row.pointsTotal, row.saldoTotalForRating,
                                    row.championships)
      relativeAdjustment == FDiv(row.relativeTotal, FromInt(row.championships))
      adjustedRating == FAdd(rawRating, relativeAdjustment)
      rating == applyRegressionToMean(adjustedRating, row.championships, baselineScore)
  IN [playerId |-> row.playerId,
      name |-> player.name,
      championships |-> row.championships,
      promedio |-> promedio,
      saldoTotal |-> row.saldoTotalRaw,
      adjustedRating |-> adjustedRating,
      rating |-> rating]

RECURSIVE rankingEntries_KeepUnresolved(_, _, _)
\* rankingEntries without the return on an unresolved player: the entry is pushed
\* with an empty name
rankingEntries_KeepUnresolved(rows, directory, baselineScore) ==
  IF rows = <<>> THEN <<>>
  ELSE LET row == Head(rows)
           k == FindPlayer(directory, row.playerId)
           player == IF k = 0 THEN [id |-> row.playerId, name |-> <<>>] ELSE directory[k]
       IN <<rankingEntry(row, player, baselineScore)>>
          \o rankingEntries_KeepUnresolved(Tail(rows), directory, baselineScore)

RECURSIVE rankingEntries(_, _, _)
\* statsMap.forEach: the entries pushed, in the Map's order
rankingEntries(rows, directory, baselineScore) ==
  IF rows = <<>> THEN <<>>
  ELSE LET row == Head(rows)
           rest == rankingEntries(Tail(rows), directory, baselineScore)
       IN IF row.championships <= 0 THEN rest
          ELSE IF FindPlayer(directory, row.playerId) = 0 THEN rest
          ELSE <<rankingEntry(row, directory[FindPlayer(directory, row.playerId)],
                              baselineScore)>> \o rest

\* the comparator without its last tie-break on the name
rankingCompare_NoName(a, b) ==
  IF b.rating # a.rating THEN Sgn(FSub(b.rating, a.rating)[1])
  ELSE IF b.saldoTotal # a.saldoTotal THEN Sgn(FSub(b.saldoTotal, a.saldoTotal)[1])
  ELSE Sgn(b.championships - a.championships)

\* the comparator of ranking.sort: the sign of what it returns
rankingCompare(a, b) ==
  IF b.rating # a.rating THEN Sgn(FSub(b.rating, a.rating)[1])
  ELSE IF b.saldoTotal # a.saldoTotal THEN Sgn(FSub(b.saldoTotal, a.saldoTotal)[1])
  ELSE IF b.championships # a.championships THEN Sgn(b.championships - a.championships)
  ELSE localeCompare(a.name, b.name)

RECURSIVE rankingInsert(_, _)
\* e put into the sorted sequence s behind every element that does not come after it
rankingInsert(s, e) ==
  IF s = <<>> THEN <<e>>
  ELSE IF rankingCompare(Head(s), e) <= 0 THEN <<Head(s)>> \o rankingInsert(Tail(s), e)
  ELSE <<e>> \o s

RECURSIVE rankingSortFrom(_, _)
rankingSortFrom(acc, s) ==
  IF s = <<>> THEN acc
  ELSE rankingSortFrom(rankingInsert(acc, Head(s)), Tail(s))

\* the ranking returned as pushed, the sort left out
rankingSort_Unsorted(s) == s

\* ranking.sort(comparator): Array.prototype.sort is a stable sort
rankingSort(s) == rankingSortFrom(<<>>, s)

computeRanking(chs, directory) ==
  LET baselineScore == computeGlobalBaselineScore(chs)
      championshipContexts == computeChampionshipContexts(chs)
      statsMap == statsMapFrom(<<>>, AllResults(chs), championshipContexts)
  IN rankingSort(rankingEntries(statsMap, directory, baselineScore))

\* the comparator of sortChampionshipsAscending without its second key
championshipCompare_DateOnly(a, b) == localeCompare(a.date, b.date)

\* the comparator of sortChampionshipsAscending
championshipCompare(a, b) ==
  LET byDate == localeCompare(a.date, b.date)
  IN IF byDate # 0 THEN byDate ELSE localeCompare(a.createdAt, b.createdAt)

RECURSIVE championshipInsert(_, _)
championshipInsert(s, e) ==
  IF s = <<>> THEN <<e>>
  ELSE IF championshipCompare(Head(s), e) <= 0
       THEN <<Head(s)>> \o championshipInsert(Tail(s), e)
  ELSE <<e>> \o s

RECURSIVE championshipSortFrom(_, _)
championshipSortFrom(acc, s) ==
  IF s = <<>> THEN acc
  ELSE championshipSortFrom(championshipInsert(acc, Head(s)), Tail(s))

\* [...championships].sort(...): a sorted copy, the sort being stable
sortChampionshipsAscending(chs) == championshipSortFrom(<<>>, chs)

\* championships.sort(...) without the spread: the array given is the one ordered
championshipsAfterSort_InPlace(chs) == championshipSortFrom(<<>>, chs)

\* The array sortChampionshipsAscending was given, as the call leaves it:
\* [...championships] copies the array and Array.prototype.sort orders the copy.
championshipsAfterSort(chs) == chs

\* championship.results.find((row) => row.playerId === playerId): its index, or 0
FindResult(results, playerId) == IndexOfPlayer(results, playerId)

RECURSIVE timelineFrom(_, _, _, _, _)
\* The forEach of getPlayerTimeline over the sorted championships `chs`; acc holds
\* the running totals and the timeline built so far.
timelineFrom(acc, chs, playerId, baselineScore, championshipContexts) ==
  IF chs = <<>> THEN acc.timeline
  ELSE LET championship == Head(chs)
           k == FindResult(championship.results, playerId)
       IN IF k = 0
          THEN timelineFrom(acc, Tail(chs), playerId, baselineScore, championshipContexts)
          ELSE LET result == championship.results[k]
                   n == acc.championships + 1
                   pointsTotal == FAdd(acc.pointsTotal, ToNumber(result.points))
                   saldoRaw == ToNumber(result.saldo)
                   saldoTotalForRating ==
                     FAdd(acc.saldoTotalForRating, capSaldoForRating(result.saldo))
                   tournamentScore == getTournamentScore(result.points, result.saldo)
                   context == championshipContexts[championship.id]
                   relativeTotal ==
                     FAdd(acc.relativeTotal,
                          computeRelativeContribution(tournamentScore, context))
                   rawRating == computeRawRating(pointsTotal, saldoTotalForRating, n)
                   relativeAdjustment == FDiv(relativeTotal, FromInt(n))
                   adjustedRating == FAdd(rawRating, relativeAdjustment)
                   rating == applyRegressionToMean(adjustedRating, n, baselineScore)
                   point == [championshipId |-> championship.id,
                             championshipName |-> championship.name,
                             date |-> championship.date,
                             points |-> ToNumber(result.points),
                             saldo |-> saldoRaw,
                             tournamentScore |-> tournamentScore,
                             adjustedRating |-> adjustedRating,
                             rating |-> rating]
               IN timelineFrom([championships |-> n,
                                pointsTotal |-> pointsTotal,
                                saldoTotalForRating |-> saldoTotalForRating,
                                relativeTotal |-> relativeTotal,
                                timeline |-> Append(acc.timeline, point)],
                               Tail(chs), playerId, baselineScore, championshipContexts)

\* getPlayerTimeline(playerId) over state.data.championships = chs
getPlayerTimeline(chs, playerId) ==
  timelineFrom([championships |-> 0,
                pointsTotal |-> Zero,
                saldoTotalForRating |-> Zero,
                relativeTotal |-> Zero,
                timeline |-> <<>>],
               sortChampionshipsAscending(chs), playerId,
               computeGlobalBaselineScore(chs), computeChampionshipContexts(chs))

\* computeMovingAverage with a slice that starts one element early
computeMovingAverage_WideWindow(series, windowSize) ==
  LET normalizedWindow == IF windowSize >= 1 THEN windowSize ELSE 1
  IN [i \in DOMAIN series |->
        LET start == IF i - normalizedWindow >= 1 THEN i - normalizedWindow ELSE 1
            slice == SubSeq(series, start, i)
            total == FSumFrom(Zero, slice)
        IN FDiv(total, FromInt(Len(slice)))]

\* computeMovingAverage with Math.max(2, ...) for the window
computeMovingAverage_MinWindowTwo(series, windowSize) ==
  LET normalizedWindow == IF windowSize >= 2 THEN windowSize ELSE 2
  IN [i \in DOMAIN series |->
        LET start == IF i - normalizedWindow + 1 >= 1 THEN i - normalizedWindow + 1 ELSE 1
            slice == SubSeq(series, start, i)
            total == FSumFrom(Zero, slice)
        IN FDiv(total, FromInt(Len(slice)))]

computeMovingAverage(series, windowSize) ==
  LET normalizedWindow == IF windowSize >= 1 THEN windowSize ELSE 1
  IN [i \in DOMAIN series |->
        LET start == IF i - normalizedWindow + 1 >= 1 THEN i - normalizedWindow + 1 ELSE 1
            slice == SubSeq(series, start, i)
            total == FSumFrom(Zero, slice)
        IN FDiv(total, FromInt(Len(slice)))]

---------------------------------------------------------------------------
(* The inputs of the engine *)

DigitChar(n) == <<"0", "1", "2", "3", "4", "5", "6", "7", "8", "9">>[n + 1]
Pad2(n) == <<DigitChar(n \div 10), DigitChar(n % 10)>>

\* the value of an <input type="date">: "2024-MM-DD"
IsoDate(month, day) == <<"2", "0", "2", "4", "-">> \o Pad2(month) \o <<"-">> \o Pad2(day)

\* new Date().toISOString() at the given hour of the given day, to the minute
IsoInstant(month, day, hour) ==
  IsoDate(month, day) \o <<"T">> \o Pad2(hour) \o <<":", "0", "0", "Z">>

PlayerIds == {"p1", "p2", "px"}

\* The player directory: "px" is an id no player has.
Directory ==
  <<[id |-> "p1", name |-> <<"a", "b">>],
    [id |-> "p2", name |-> <<"A", "b">>]>>

Result(playerId, points, saldo) ==
  [playerId |-> playerId, points |-> points, saldo |-> saldo]

\* The results a stored championship may hold.  Saldos 30 and 40 are both above
\* the cap, so p1 and p2 can tie on rating with different raw saldo totals.
ResultSet ==
  {Result("p1", 0, 0), Result("p1", 10, 30),
   Result("p2", 0, 0), Result("p2", 10, 30), Result("p2", 10, 40),
   Result("px", 0, 0)}

ResultSeqs == UNION {[1..n -> ResultSet] : n \in 0..2}

ChampionshipIds == <<"c1", "c2", "c3">>

Championship(i, date, createdAt, results) ==
  [id |-> ChampionshipIds[i],
   name |-> <<"T", DigitChar(i)>>,
   date |-> date,
   createdAt |-> createdAt,
   results |-> results]

\* Stores for the ranking: up to two championships, each with up to two results.
Stores ==
  UNION {
    {[i \in 1..n |-> Championship(i, IsoDate(1, 5), IsoInstant(1, 5, 10 + i), rs[i])] :
       rs \in [1..n -> ResultSeqs]}
    : n \in 0..2}

\* state as the script creates it (lines 10-20), before anything is rendered
InitialUi ==
  [editingChampionshipId |-> "",
   selectedPlayerId |-> "",
   nameEditorOpen |-> FALSE,
   playerTrendLimit |-> FromInt(5),
   playerMovingAvgWindow |-> FromInt(3),
   nameEditorInputs |-> <<>>,
   detail |-> [shown |-> FALSE],
   created |-> 0]

Init ==
  /\ players = Directory
  /\ championships \in Stores
  /\ ui = InitialUi
  /\ call = [fn |-> "init"]
  /\ ret = <<>>

\* renderRanking: computeRanking(state.data.championships, state.data.players)
CallComputeRanking ==
  /\ call.fn = "init"
  /\ call' = [fn |-> "computeRanking"]
  /\ ret' = computeRanking(championships, players)
  /\ UNCHANGED <<players, championships, ui>>

Next == CallComputeRanking

Spec == Init /\ [][Next]_vars

---------------------------------------------------------------------------
(* getPlayerTimeline over stores whose championships differ in date (a later *)
(* day of one month, an earlier day of the next) and in creation time, in    *)
(* any list order                                                            *)

TimelineDates == {IsoDate(1, 20), IsoDate(2, 3)}
TimelineInstants == {IsoInstant(1, 5, 9), IsoInstant(1, 5, 11)}

\* p1 and p2 together; or p2 twice and p1 absent
TimelineResults ==
  {<<Result("p1", 10, 30), Result("p2", 10, 40)>>,
   <<Result("p2", 0, 0), Result("p2", 10, 30)>>}

TimelineStores ==
  UNION {
    {[i \in 1..n |-> Championship(i, w[i][1], w[i][2], w[i][3])] :
       w \in [1..n -> TimelineDates \X TimelineInstants \X TimelineResults]}
    : n \in 0..Len(ChampionshipIds)}

InitTimeline ==
  /\ players = Directory
  /\ championships \in TimelineStores
  /\ ui = InitialUi
  /\ call = [fn |-> "init"]
  /\ ret = <<>>

\* renderPlayerDetail: getPlayerTimeline(state.selectedPlayerId)
CallGetPlayerTimeline ==
  /\ call.fn = "init"
  /\ \E playerId \in PlayerIds :
       /\ call' = [fn |-> "getPlayerTimeline", playerId |-> playerId]
       /\ ret' = getPlayerTimeline(championships, playerId)
  /\ championships' = championshipsAfterSort(championships)
  /\ UNCHANGED <<players, ui>>

NextTimeline == CallGetPlayerTimeline

SpecTimeline == InitTimeline /\ [][NextTimeline]_vars

---------------------------------------------------------------------------
(* capSaldoForRating and getTournamentScore over a range of points and saldos *)

InitScore ==
  /\ players = <<>>
  /\ championships = <<>>
  /\ ui = InitialUi
  /\ call = [fn |-> "init"]
  /\ ret = <<>>

CallGetTournamentScore ==
  /\ call.fn = "init"
  /\ \E points \in 0..MaxPoints,
        saldo \in -(SALDO_CAP_PER_TOURNAMENT + MaxSaldoExcess)
                    ..(SALDO_CAP_PER_TOURNAMENT + MaxSaldoExcess) :
       /\ call' = [fn |-> "getTournamentScore", points |-> points, saldo |-> saldo]
       /\ ret' = [capped |-> capSaldoForRating(saldo),
                  score |-> getTournamentScore(points, saldo)]
  /\ UNCHANGED <<players, championships, ui>>

NextScore == CallGetTournamentScore

SpecScore == InitScore /\ [][NextScore]_vars

---------------------------------------------------------------------------
(* computeChampionshipContexts and computeRelativeContribution over one      *)
(* championship with up to MaxParticipants results                           *)

ContextOutcomes ==
  {[points |-> 0, saldo |-> 1], [points |-> 0, saldo |-> 3],
   [points |-> 10, saldo |-> 0], [points |-> 10, saldo |-> 30],
   [points |-> 8, saldo |-> -40]}

ContextPlayerIds == <<"p1", "p2", "p3", "p4", "p5", "p6">>

ContextStores ==
  UNION {
    {<<Championship(1, IsoDate(1, 5), IsoInstant(1, 5, 10),
                    [i \in 1..n |-> Result(ContextPlayerIds[i], o[i].points, o[i].saldo)])>> :
       o \in [1..n -> ContextOutcomes]}
    : n \in 0..MaxParticipants}

InitContext ==
  /\ players = <<>>
  /\ championships \in ContextStores
  /\ ui = InitialUi
  /\ call = [fn |-> "init"]
  /\ ret = <<>>

\* The context of the stored championship and, as computeRanking and
\* getPlayerTimeline compute it, the relative contribution of each of its results.
CallComputeChampionshipContexts ==
  /\ call.fn = "init"
  /\ call' = [fn |-> "computeChampionshipContexts"]
  /\ ret' =
       LET championship == championships[1]
           context == computeChampionshipContexts(championships)[championship.id]
       IN [context |-> context,
           contributions |->
             [i \in DOMAIN championship.results |->
                computeRelativeContribution(
                  getTournamentScore(championship.results[i].points,
                                     championship.results[i].saldo),
                  context)]]
  /\ UNCHANGED <<players, championships, ui>>

NextContext == CallComputeChampionshipContexts

SpecContext == InitContext /\ [][NextContext]_vars

---------------------------------------------------------------------------
(* computeMovingAverage over short series of ratings *)

SeriesValues == {Zero, FromInt(3), Decimal(21, 2)}

SeriesSet == UNION {[1..n -> SeriesValues] : n \in 0..MaxSeriesLen}

CallComputeMovingAverage ==
  /\ call.fn = "init"
  /\ \E series \in SeriesSet, windowSize \in 0..MaxWindow :
       /\ call' = [fn |-> "computeMovingAverage",
                   series |-> series, windowSize |-> windowSize]
       /\ ret' = computeMovingAverage(series, windowSize)
  /\ UNCHANGED <<players, championships, ui>>

NextMovingAverage == CallComputeMovingAverage

SpecMovingAverage == InitScore /\ [][NextMovingAverage]_vars

---------------------------------------------------------------------------
(* The comparator of the ranking over pairs of entries *)

EntryNames == {<<"a", "b">>, <<"A", "b">>, <<"á", "b">>, <<"b">>}

EntrySet ==
  [playerId : {"p1", "p2"},
   name : EntryNames,
   championships : {1, 2},
   saldoTotal : {Zero, FromInt(30)},
   rating : {FromInt(12), Decimal(125, 10)}]

CallRankingCompare ==
  /\ call.fn = "init"
  /\ \E a \in EntrySet, b \in EntrySet :
       /\ a.playerId = "p1"
       /\ b.playerId = "p2"
       /\ call' = [fn |-> "rankingCompare", a |-> a, b |-> b]
       /\ ret' = rankingCompare(a, b)
  /\ UNCHANGED <<players, championships, ui>>

NextComparator == CallRankingCompare

SpecComparator == InitScore /\ [][NextComparator]_vars

---------------------------------------------------------------------------
(* computeRanking over the one championship of X (points 100, saldo 10) and  *)
(* Y (points 80, saldo -5), with the results in either order, under any date *)
(* and any directory that resolves both                                      *)

ScenarioX == Result("p1", 100, 10)
ScenarioY == Result("p2", 80, -5)

ScenarioDirectories ==
  UNION {
    {<<[id |-> "p1", name |-> nx], [id |-> "p2", name |-> ny]>>,
     <<[id |-> "p2", name |-> ny], [id |-> "p1", name |-> nx]>>,
     <<[id |-> "p3", name |-> <<"b">>], [id |-> "p1", name |-> nx],
       [id |-> "p2", name |-> ny]>>}
    : nx \in EntryNames, ny \in EntryNames}

ScenarioStores ==
  {<<Championship(1, date, IsoInstant(1, 5, 9), results)>> :
     date \in TimelineDates,
     results \in {<<ScenarioX, ScenarioY>>, <<ScenarioY, ScenarioX>>}}

InitScenario ==
  /\ players \in ScenarioDirectories
  /\ championships \in ScenarioStores
  /\ ui = InitialUi
  /\ call = [fn |-> "init"]
  /\ ret = <<>>

SpecScenario == InitScenario /\ [][Next]_vars

---------------------------------------------------------------------------
(* renderAll over stores of three championships with two or three different *)
(* players each, in any list order: the ranking, and the timeline of the     *)
(* selected player                                                           *)

AgreementDates == {IsoDate(1, 10), IsoDate(1, 20), IsoDate(2, 3)}

AgreementResults ==
  {<<Result("p1", 10, 3), Result("p2", 3, -9)>>,
   <<Result("p1", 5, 0), Result("p2", 0, 0)>>,
   <<Result("p1", 0, 0), Result("p2", 3, -9), Result("px", 5, 0)>>}

AgreementStores ==
  {[i \in 1..Len(ChampionshipIds) |->
      Championship(i, w[i][1], IsoInstant(2, 10, 9 + i), w[i][2])] :
     w \in [1..Len(ChampionshipIds) -> AgreementDates \X AgreementResults]}

InitAgreement ==
  /\ players = Directory
  /\ championships \in AgreementStores
  /\ ui = InitialUi
  /\ call = [fn |-> "init"]
  /\ ret = <<>>

\* renderAll: renderRanking and renderPlayerDetail over the same state.data
CallRenderAll ==
  /\ call.fn = "init"
  /\ \E selectedPlayerId \in PlayerIds :
       /\ call' = [fn |-> "renderAll", selectedPlayerId |-> selectedPlayerId]
       /\ ret' = [ranking |-> computeRanking(championships, players),
                  timeline |-> getPlayerTimeline(championships, selectedPlayerId)]
  /\ UNCHANGED <<players, championships, ui>>

NextAgreement == CallRenderAll

SpecAgreement == InitAgreement /\ [][NextAgreement]_vars

---------------------------------------------------------------------------
(* The three engine functions called on one store *)

\* stores of two championships created in the same hour, in and out of date order
EngineStores ==
  {chs \in TimelineStores : Len(chs) = 2 /\ chs[1].createdAt = chs[2].createdAt}

InitEngine ==
  /\ InitTimeline
  /\ championships \in EngineStores

NextEngine ==
  \/ CallComputeRanking
  \/ CallGetPlayerTimeline
  \/ CallComputeMovingAverage

SpecEngine == InitEngine /\ [][NextEngine]_vars

---------------------------------------------------------------------------
(* The page: the championship form, the championship list, the name editor *)
(* and the player detail, over state.data                                   *)

\* createId(prefix): an id no player, or no championship, has had before; n counts
\* the ids of the prefix given out so far, this one included
createId(prefix, n) == IF prefix = "p" THEN ContextPlayerIds[n] ELSE ChampionshipIds[n]

\* state.data.players.find((player) => normalizeName(player.name) === normalized):
\* its index, or 0
FindPlayerByName(directory, normalized) ==
  IF \E i \in DOMAIN directory : normalizeName(directory[i].name) = normalized
  THEN CHOOSE i \in DOMAIN directory :
         /\ normalizeName(directory[i].name) = normalized
         /\ \A j \in DOMAIN directory :
              normalizeName(directory[j].name) = normalized => i <= j
  ELSE 0

\* getOrCreatePlayerByName(name): the player, and state.data.players after the call
getOrCreatePlayerByName(directory, name) ==
  LET k == FindPlayerByName(directory, normalizeName(name))
      player == [id |-> createId("p", Len(directory) + 1), name |-> cleanName(name)]
  IN IF k # 0 THEN [players |-> directory, player |-> directory[k]]
     ELSE [players |-> Append(directory, player), player |-> player]

RECURSIVE buildResults(_, _, _, _)

\* the end of a row of validateAndBuildPayload: the result is pushed for the
\* player getOrCreatePlayerByName gave, and the next row is visited
buildResolved(rows, normalizedInChampionship, results, got, points, saldo) ==
  buildResults(Tail(rows), got.players, normalizedInChampionship,
               Append(results, Result(got.player.id, points.num, saldo.num)))

\* buildRow without the check for a repeated player
buildRow_RepeatedAllowed(rows, directory, normalizedInChampionship, results, playerName, points, saldo) ==
  IF playerName = <<>>
  THEN [error |-> "playerName", players |-> directory, results |-> results]
  ELSE IF points.nan
  THEN [error |-> "points", players |-> directory, results |-> results]
  ELSE IF saldo.nan
  THEN [error |-> "saldo", players |-> directory, results |-> results]
  ELSE buildResolved(rows, normalizedInChampionship, results,
                     getOrCreatePlayerByName(directory, playerName), points, saldo)

\* one row of validateAndBuildPayload, from the name, the points and the saldo
\* read from its inputs
buildRow(rows, directory, normalizedInChampionship, results, playerName, points, saldo) ==
  IF playerName = <<>>
  THEN [error |-> "playerName", players |-> directory, results |-> results]
  ELSE IF points.nan
  THEN [error |-> "points", players |-> directory, results |-> results]
  ELSE IF saldo.nan
  THEN [error |-> "saldo", players |-> directory, results |-> results]
  ELSE IF normalizeName(playerName) \in normalizedInChampionship
  THEN [error |-> "repeated", players |-> directory, results |-> results]
  ELSE buildResolved(rows, normalizedInChampionship \cup {normalizeName(playerName)},
                     results, getOrCreatePlayerByName(directory, playerName),
                     points, saldo)

\* rows.forEach of validateAndBuildPayload: the error thrown ("" for none), the
\* results built and state.data.players as the rows visited have left it.  The
\* points and saldos the model types into the form are whole numbers.
buildResults(rows, directory, normalizedInChampionship, results) ==
  IF rows = <<>> THEN [error |-> "", players |-> directory, results |-> results]
  ELSE buildRow(rows, directory, normalizedInChampionship, results,
                trim(Head(rows).playerName),
                parseNumber(Head(rows).points),
                parseNumber(Head(rows).saldo))

\* what validateAndBuildPayload returns for the results built
payloadFromResults(name, date, built) ==
  [error |-> built.error,
   players |-> built.players,
   payload |-> [name |-> name, date |-> date, results |-> built.results]]

\* validateAndBuildPayload() over the form's fields: the error thrown ("" for
\* none), the payload, and state.data.players after the call
validateAndBuildPayload(directory, form) ==
  IF trim(form.name) = <<>> THEN [error |-> "name", players |-> directory]
  ELSE IF form.date = <<>> THEN [error |-> "date", players |-> directory]
  ELSE IF form.rows = <<>> THEN [error |-> "rows", players |-> directory]
  ELSE payloadFromResults(trim(form.name), form.date,
                          buildResults(form.rows, directory, {}, <<>>))

\* the selection renderRanking leaves for the ranking it drew
selectionAfterRanking(ranking, selectedPlayerId) ==
  IF ranking = <<>> THEN ""
  ELSE IF \E i \in DOMAIN ranking : ranking[i].playerId = selectedPlayerId
  THEN selectedPlayerId
  ELSE ranking[1].playerId

\* renderRanking: the selection it leaves in state.selectedPlayerId
renderRanking(directory, chs, u) ==
  [u EXCEPT !.selectedPlayerId =
     selectionAfterRanking(computeRanking(chs, directory), u.selectedPlayerId)]

\* What renderPlayerDetail shows of a timeline, and the timeline length its
\* change handlers close over.  Math.floor of line 657 is applied to the window
\* here, computeMovingAverage taking whole numbers.
playerDetail(timeline, playerTrendLimit, playerMovingAvgWindow) ==
  IF Len(timeline) = 0 THEN [shown |-> TRUE, timelineLength |-> 0]
  ELSE LET trendCount == FMax(FromInt(1), FMin(playerTrendLimit, FromInt(Len(timeline))))
           relativeStart == Len(timeline) + FTrunc(FNeg(trendCount))
           recentTrendChronological ==
             SubSeq(timeline, (IF relativeStart > 0 THEN relativeStart ELSE 0) + 1,
                    Len(timeline))
           movingAvgWindow ==
             FMax(FromInt(1),
                  FMin(playerMovingAvgWindow, FromInt(Len(recentTrendChronological))))
       IN [shown |-> TRUE,
           timelineLength |-> Len(timeline),
           trendCount |-> trendCount,
           trendPoints |-> Len(recentTrendChronological),
           movingAvgWindow |-> movingAvgWindow,
           movingAvg |->
             computeMovingAverage(
               [i \in DOMAIN recentTrendChronological |->
                  recentTrendChronological[i].rating],
               FFloor(movingAvgWindow))]

\* renderPlayerDetail: hidden without a selected player the directory knows
renderPlayerDetail(directory, chs, u) ==
  IF u.selectedPlayerId = "" \/ FindPlayer(directory, u.selectedPlayerId) = 0
  THEN [u EXCEPT !.detail = [shown |-> FALSE]]
  ELSE [u EXCEPT !.detail =
          playerDetail(getPlayerTimeline(chs, u.selectedPlayerId),
                       u.playerTrendLimit, u.playerMovingAvgWindow)]

\* renderNameEditor: one input per player when the editor is open (the editor
\* lists them sorted by name; the order does not reach state.data)
renderNameEditor(directory, u) ==
  [u EXCEPT !.nameEditorInputs =
     IF u.nameEditorOpen THEN [i \in DOMAIN directory |-> directory[i].id] ELSE <<>>]

\* renderAll (renderChampionships draws the list and keeps nothing)
renderAll(directory, chs, u) ==
  renderNameEditor(directory,
    renderPlayerDetail(directory, chs, renderRanking(directory, chs, u)))

resetForm(u) == [u EXCEPT !.editingChampionshipId = ""]

\* the index of the first championship with the id, or 0
FindChampionship(chs, championshipId) ==
  IF \E i \in DOMAIN chs : chs[i].id = championshipId
  THEN CHOOSE i \in DOMAIN chs :
         /\ chs[i].id = championshipId
         /\ \A j \in DOMAIN chs : chs[j].id = championshipId => i <= j
  ELSE 0

\* what the submit handler throws for a payload built: validateAndBuildPayload's
\* error, or that of an update of a championship that is not in the list
submitError(built, editingChampionshipId, k) ==
  IF built.error # "" THEN built.error
  ELSE IF editingChampionshipId # "" /\ k = 0 THEN "update"
  ELSE ""

\* updateChampionship (k the index of the championship) or createChampionship
\* (k = 0, n the count of championships ever created)
storeChampionship(chs, payload, k, n) ==
  IF k # 0
  THEN [chs EXCEPT ![k] = [@ EXCEPT !.name = payload.name,
                                    !.date = payload.date,
                                    !.results = payload.results]]
  ELSE Append(chs, [id |-> createId("c", n),
                    name |-> payload.name,
                    date |-> payload.date,
                    createdAt |-> IsoInstant(3, 1, n),
                    results |-> payload.results])

\* The submit handler for the payload built and the index k of the championship
\* being edited (0 for none).  A throw leaves the catch to show the toast; what
\* getOrCreatePlayerByName pushed before it stays.
SubmitBuilt(built, k) ==
  /\ Len(built.players) <= MaxPlayers
  /\ call' = [fn |-> "submit"]
  /\ players' = built.players
  /\ ret' = [error |-> submitError(built, ui.editingChampionshipId, k)]
  /\ IF ret'.error # ""
     THEN UNCHANGED <<championships, ui>>
     ELSE /\ k = 0 => ui.created < MaxCreated
          /\ championships' =
               storeChampionship(championships, built.payload, k, ui.created + 1)
          /\ ui' = renderAll(players', championships',
                             [resetForm(ui) EXCEPT
                                !.created = IF k = 0 THEN @ + 1 ELSE @])

\* the submit handler of the form (lines 1032-1054)
Submit(form) ==
  SubmitBuilt(validateAndBuildPayload(players, form),
              FindChampionship(championships, ui.editingChampionshipId))

\* "Editar" of a championship in the list: fillFormForEdit
EditClick(i) ==
  /\ i \in DOMAIN championships
  /\ ui' = [ui EXCEPT !.editingChampionshipId = championships[i].id]
  /\ call' = [fn |-> "fillFormForEdit"]
  /\ ret' = <<>>
  /\ UNCHANGED <<players, championships>>

\* "Cancelar" of the form: resetForm
CancelEdit ==
  /\ ui.editingChampionshipId # ""
  /\ ui' = resetForm(ui)
  /\ call' = [fn |-> "cancelEdit"]
  /\ ret' = <<>>
  /\ UNCHANGED <<players, championships>>

\* "Eliminar" of a championship in the list, confirmed: deleteChampionship
DeleteClick(i) ==
  /\ i \in DOMAIN championships
  /\ LET idx == FindChampionship(championships, championships[i].id)
     IN /\ championships' = SubSeq(championships, 1, idx - 1)
                            \o SubSeq(championships, idx + 1, Len(championships))
        /\ ui' = renderAll(players, championships',
                           IF ui.editingChampionshipId = championships[i].id
                           THEN resetForm(ui) ELSE ui)
  /\ call' = [fn |-> "deleteChampionship"]
  /\ ret' = <<>>
  /\ UNCHANGED players

\* the button that opens and closes the name editor
ToggleNameEditor ==
  /\ ui' = renderNameEditor(players, [ui EXCEPT !.nameEditorOpen = ~ui.nameEditorOpen])
  /\ call' = [fn |-> "toggleNameEditor"]
  /\ ret' = <<>>
  /\ UNCHANGED <<players, championships>>

\* "Cancelar" of the name editor, a button the open editor draws
CloseNameEditor ==
  /\ ui.nameEditorOpen
  /\ ui' = renderNameEditor(players, [ui EXCEPT !.nameEditorOpen = FALSE])
  /\ call' = [fn |-> "closeNameEditor"]
  /\ ret' = <<>>
  /\ UNCHANGED <<players, championships>>

RECURSIVE checkNameInputs(_, _)
\* nameInputs.forEach of savePlayerNameChanges: TRUE if it throws
checkNameInputs(values, normalizedNames) ==
  IF values = <<>> THEN FALSE
  ELSE LET normalized == normalizeName(cleanName(Head(values)))
       IN \/ normalized = <<>>
          \/ normalized \in normalizedNames
          \/ checkNameInputs(Tail(values), normalizedNames \cup {normalized})

\* state.data.players after the forEach of savePlayerNameChanges: namesById maps
\* the id of an input to its cleaned value, the last input of an id winning
renamedPlayers(directory, inputs, values) ==
  [i \in DOMAIN directory |->
     IF \E k \in DOMAIN inputs : inputs[k] = directory[i].id
     THEN LET last == CHOOSE k \in DOMAIN inputs :
                        /\ inputs[k] = directory[i].id
                        /\ \A l \in DOMAIN inputs : inputs[l] = directory[i].id => l <= k
          IN [directory[i] EXCEPT !.name = cleanName(values[last])]
     ELSE directory[i]]

\* "Guardar nombres" of the name editor, with the values typed into its inputs
SaveNames(values) ==
  /\ ui.nameEditorOpen
  /\ ui.nameEditorInputs # <<>>
  /\ call' = [fn |-> "savePlayerNameChanges"]
  /\ IF checkNameInputs(values, {})
     THEN /\ ret' = [error |-> "names"]
          /\ UNCHANGED <<players, championships, ui>>
     ELSE /\ players' = renamedPlayers(players, ui.nameEditorInputs, values)
          /\ ui' = IF players' = players THEN ui
                   ELSE renderAll(players', championships, ui)
          /\ ret' = [error |-> ""]
          /\ UNCHANGED championships

\* the names typed into the form's rows and into the name editor
TypedNames == {<<"a">>, <<"A", " ">>, <<"b">>, <<" ">>}

\* a row of the form with points and a saldo that are numbers
ValidRow(playerName) ==
  [playerName |-> playerName, points |-> <<"1">>, saldo |-> <<"-", "3">>]

\* rows the form rejects: no player name, points that are no number, a saldo
\* left empty
InvalidRows ==
  {ValidRow(<<" ">>),
   [playerName |-> <<"b">>, points |-> <<"x">>, saldo |-> <<"0">>],
   [playerName |-> <<"b">>, points |-> <<"1">>, saldo |-> <<>>]}

\* the rows of the forms submitted: one or two players, a player twice under
\* two spellings, a rejected row alone or after a good one, no row
FormRows ==
  {<<ValidRow(<<"a">>)>>, <<ValidRow(<<"b">>)>>,
   <<ValidRow(<<"a">>), ValidRow(<<"b">>)>>,
   <<ValidRow(<<"b">>), ValidRow(<<"a">>)>>,
   <<ValidRow(<<"a">>), ValidRow(<<"A", " ">>)>>,
   <<>>}
  \cup {<<row>> : row \in InvalidRows}
  \cup {<<ValidRow(n), row>> : n \in {<<"a">>, <<"b">>}, row \in InvalidRows}

\* the forms submitted: a name and a date with the rows above, or the name or
\* the date missing
Forms ==
  {[name |-> <<"T", "1">>, date |-> IsoDate(1, 20), rows |-> rows] : rows \in FormRows}
  \cup {[name |-> <<" ">>, date |-> IsoDate(1, 20), rows |-> <<ValidRow(<<"b">>)>>],
        [name |-> <<"T", "1">>, date |-> <<>>, rows |-> <<ValidRow(<<"b">>)>>]}

\* the values of the editor's inputs when one of them is typed over: an input
\* shows the name its player had when the editor was drawn, and a name only
\* changes through a save that draws the editor again
EditorValues(i, name) ==
  [k \in DOMAIN ui.nameEditorInputs |->
     IF k = i THEN name
     ELSE players[FindPlayer(players, ui.nameEditorInputs[k])].name]

\* init(): loadStore finds nothing stored, renderAll draws the empty page
InitForm ==
  /\ players = <<>>
  /\ championships = <<>>
  /\ ui = renderAll(<<>>, <<>>, InitialUi)
  /\ call = [fn |-> "init"]
  /\ ret = <<>>

NextForm ==
  \/ \E form \in Forms : Submit(form)
  \/ \E i \in 1..MaxCreated : EditClick(i)
  \/ CancelEdit
  \/ \E i \in 1..MaxCreated : DeleteClick(i)
  \/ ToggleNameEditor
  \/ CloseNameEditor
  \/ \E i \in 1..MaxPlayers, name \in TypedNames :
       /\ i \in DOMAIN ui.nameEditorInputs
       /\ SaveNames(EditorValues(i, name))

SpecForm == InitForm /\ [][NextForm]_vars

\* the handlers that create, update and delete championships
NextStore ==
  \/ \E form \in Forms : Submit(form)
  \/ \E i \in 1..MaxCreated : EditClick(i)
  \/ CancelEdit
  \/ \E i \in 1..MaxCreated : DeleteClick(i)

SpecStore == InitForm /\ [][NextStore]_vars

---------------------------------------------------------------------------
(* The player detail: the selection, the trend limit and the moving-average *)
(* window, over a store that championships join and leave                   *)

\* n || other for the Number n = [nan, num, den]
NumberOr(n, other) == IF n.nan \/ n.num = 0 THEN other ELSE Decimal(n.num, n.den)

\* Number(input.value) || 1 of the two change handlers
NumberOrOne(value) == NumberOr(StringToNumber(value), FromInt(1))

\* the click on a player of the ranking table
SelectPlayer(playerId) ==
  /\ selectionAfterRanking(computeRanking(championships, players), playerId) = playerId
  /\ ui' = renderPlayerDetail(players, championships,
             renderRanking(players, championships,
                           [ui EXCEPT !.selectedPlayerId = playerId]))
  /\ call' = [fn |-> "selectPlayer"]
  /\ ret' = <<>>
  /\ UNCHANGED <<players, championships>>

\* the change of "Ultimos N campeonatos"; the input exists once the detail
\* has drawn its controls, and its handler closes over that render's timeline
ChangeTrendLimit(typed) ==
  /\ ui.detail.shown
  /\ ui.detail.timelineLength > 0
  /\ LET value == FMax(FromInt(1),
                       FMin(FromInt(ui.detail.timelineLength), NumberOrOne(typed)))
     IN ui' = renderPlayerDetail(players, championships,
                                 [ui EXCEPT !.playerTrendLimit = value])
  /\ call' = [fn |-> "changeTrendLimit"]
  /\ ret' = <<>>
  /\ UNCHANGED <<players, championships>>

\* the change of "Ventana promedio movil"
ChangeWindow(typed) ==
  /\ ui.detail.shown
  /\ ui.detail.timelineLength > 0
  /\ LET maxAllowed == FMax(FromInt(1),
                            FMin(FromInt(ui.detail.timelineLength), ui.playerTrendLimit))
         value == FMax(FromInt(1), FMin(maxAllowed, NumberOrOne(typed)))
     IN ui' = renderPlayerDetail(players, championships,
                                 [ui EXCEPT !.playerMovingAvgWindow = value])
  /\ call' = [fn |-> "changeWindow"]
  /\ ret' = <<>>
  /\ UNCHANGED <<players, championships>>

\* what is typed into the two number inputs: a fraction, a whole number in
\* range, nothing (what the input keeps of text that is no number), a negative
\* number, a number above the maximum
TypedNumbers == {<<"1", ".", "5">>, <<"2">>, <<>>, <<"-", "1">>, <<"7">>}

\* the championship the form adds: the two stored players again
DetailForms ==
  {[name |-> <<"T", "1">>, date |-> IsoDate(2, 3),
    rows |-> <<[playerName |-> <<"a">>, points |-> <<"3">>, saldo |-> <<"2">>],
               [playerName |-> <<"B">>, points |-> <<"1">>, saldo |-> <<"-", "2">>]>>]}

\* the store loadStore finds: two players and two championships of an earlier
\* session
DetailPlayers == <<[id |-> "p1", name |-> <<"a">>], [id |-> "p2", name |-> <<"b">>]>>

DetailChampionships ==
  <<[id |-> "s1", name |-> <<"S", "1">>, date |-> IsoDate(1, 20),
     createdAt |-> IsoInstant(1, 20, 9),
     results |-> <<Result("p1", 2, 5), Result("p2", 1, -5)>>],
    [id |-> "s2", name |-> <<"S", "2">>, date |-> IsoDate(1, 10),
     createdAt |-> IsoInstant(1, 20, 10),
     results |-> <<Result("p2", 3, 1), Result("p1", 0, -1)>>]>>

\* init(): loadStore, resetForm, renderAll
InitDetail ==
  /\ players = DetailPlayers
  /\ championships = DetailChampionships
  /\ ui = renderAll(DetailPlayers, DetailChampionships, InitialUi)
  /\ call = [fn |-> "init"]
  /\ ret = <<>>

NextDetail ==
  \/ \E playerId \in {DetailPlayers[i].id : i \in DOMAIN DetailPlayers} :
       SelectPlayer(playerId)
  \/ \E typed \in TypedNumbers : ChangeTrendLimit(typed)
  \/ \E typed \in TypedNumbers : ChangeWindow(typed)
  \/ \E form \in DetailForms : Submit(form)
  \/ \E i \in 1..(MaxCreated + Len(DetailChampionships)) : DeleteClick(i)

SpecDetail == InitDetail /\ [][NextDetail]_vars

---------------------------------------------------------------------------
(* Claims *)

\* the rating is strictly between a and b
StrictlyBetween(rating, a, b) ==
  \/ FLess(a, rating) /\ FLess(rating, b)
  \/ FLess(b, rating) /\ FLess(rating, a)

\* C1: in the output of computeRanking, an entry with exactly one participation
\* has rating = adjustedRating * 1/3 + baseline * 2/3, strictly between
\* adjustedRating and the baseline unless the two are equal; an entry with two or
\* more participations has rating = adjustedRating.
C1_ShrinkageBoundary ==
  call.fn = "computeRanking" =>
    LET baseline == computeGlobalBaselineScore(championships)
        third == FDiv(FromInt(1), FromInt(3))
    IN \A i \in DOMAIN ret :
         /\ ret[i].championships = 1 =>
              /\ ret[i].rating =
                   FAdd(FMul(ret[i].adjustedRating, third),
                        FMul(baseline, FSub(FromInt(1), third)))
              /\ ret[i].adjustedRating # baseline =>
                   StrictlyBetween(ret[i].rating, ret[i].adjustedRating, baseline)
         /\ ret[i].championships >= 2 => ret[i].rating = ret[i].adjustedRating

\* a ranking with a one-participation entry pulled toward a different baseline
\* and an entry with two participations whose adjustedRating is not the baseline
C1_Witness ==
  /\ call.fn = "computeRanking"
  /\ \E i, j \in DOMAIN ret :
       /\ ret[i].championships = 1
       /\ ret[i].adjustedRating # computeGlobalBaselineScore(championships)
       /\ ret[i].rating # ret[i].adjustedRating
       /\ ret[j].championships = 2
       /\ ret[j].adjustedRating # computeGlobalBaselineScore(championships)
       /\ ret[j].rating = ret[j].adjustedRating

\* a comes before b, or ties with it, in the order the ranking is to have
RankedBefore(a, b) ==
  \/ FLess(b.rating, a.rating)
  \/ /\ a.rating = b.rating
     /\ \/ FLess(b.saldoTotal, a.saldoTotal)
        \/ /\ a.saldoTotal = b.saldoTotal
           /\ \/ a.championships > b.championships
              \/ /\ a.championships = b.championships
                 /\ localeCompare(a.name, b.name) <= 0

\* C2: the sequence computeRanking returns is sorted by rating descending, then
\* raw saldo total descending, then participations descending, then name ascending.
C2_RankingSorted ==
  call.fn = "computeRanking" =>
    \A i \in DOMAIN ret : i < Len(ret) => RankedBefore(ret[i], ret[i + 1])

\* two entries tie on rating, the raw saldo total decides, and the sort has put
\* them in the opposite order to the one their results were read in
C2_Witness ==
  /\ call.fn = "computeRanking"
  /\ Len(ret) = 2
  /\ ret[1].rating = ret[2].rating
  /\ FLess(ret[2].saldoTotal, ret[1].saldoTotal)
  /\ AllResults(championships)[1].result.playerId = ret[2].playerId

\* C3: the comparator of the ranking is never 0 on two entries whose names differ
\* under the name comparison, and is 0 only when rating, raw saldo total,
\* participation count and name are all equal.
C3_ComparatorTotal ==
  call.fn = "rankingCompare" =>
    /\ localeCompare(call.a.name, call.b.name) # 0 => ret # 0
    /\ ret = 0 =>
         /\ call.a.rating = call.b.rating
         /\ call.a.saldoTotal = call.b.saldoTotal
         /\ call.a.championships = call.b.championships
         /\ localeCompare(call.a.name, call.b.name) = 0

\* two entries equal in rating, saldo and participations, with names that
\* differ only in case: the name decides
C3_Witness ==
  /\ call.fn = "rankingCompare"
  /\ call.a.rating = call.b.rating
  /\ call.a.saldoTotal = call.b.saldoTotal
  /\ call.a.championships = call.b.championships
  /\ call.a.name = <<"A", "b">>
  /\ call.b.name = <<"a", "b">>
  /\ ret = 1

\* the ids that have a result in some championship
ResultIds(chs) ==
  UNION {{chs[i].results[k].playerId : k \in DOMAIN chs[i].results} : i \in DOMAIN chs}

DirectoryIds(directory) == {directory[i].id : i \in DOMAIN directory}

\* C4: computeRanking returns exactly one entry for each player id that has a
\* result in some championship and is in the directory, none for any other id;
\* every entry has participations >= 1; no results give an empty ranking.
C4_RankingMembership ==
  call.fn = "computeRanking" =>
    LET ids == ResultIds(championships) \cap DirectoryIds(players)
    IN /\ {ret[i].playerId : i \in DOMAIN ret} = ids
       /\ Len(ret) = Cardinality(ids)
       /\ \A i \in DOMAIN ret : ret[i].championships >= 1
       /\ (ResultIds(championships) = {} => ret = <<>>)

\* p1 and the unknown px both have results, p2 has none: the ranking is p1 alone
C4_Witness ==
  /\ call.fn = "computeRanking"
  /\ ResultIds(championships) = {"p1", "px"}
  /\ Len(ret) = 1
  /\ ret[1].playerId = "p1"

\* the results of a championship whose playerId the directory resolves
SelectResolved(results, directory) ==
  SelectSeq(results, LAMBDA r : r.playerId \in DirectoryIds(directory))

\* the championships with every unresolvable result removed
WithoutUnresolved(chs, directory) ==
  [i \in DOMAIN chs |->
     [chs[i] EXCEPT !.results = SelectResolved(chs[i].results, directory)]]

\* what computeRanking returns of an entry
Returned(e) ==
  [playerId |-> e.playerId, name |-> e.name, championships |-> e.championships,
   promedio |-> e.promedio, saldoTotal |-> e.saldoTotal, rating |-> e.rating]

\* what an entry says of the player's own results
OwnTotals(e) ==
  [playerId |-> e.playerId, name |-> e.name, championships |-> e.championships,
   promedio |-> e.promedio, saldoTotal |-> e.saldoTotal]

\* C5 as stated: the ranking (entries, ratings and order) is the one computed
\* after removing every result whose playerId is not in the directory.
C5_UnresolvedDoNotCount ==
  call.fn = "computeRanking" =>
    LET clean == computeRanking(WithoutUnresolved(championships, players), players)
    IN [i \in DOMAIN ret |-> Returned(ret[i])] = [i \in DOMAIN clean |-> Returned(clean[i])]

\* C5 as amended: an unresolvable result gives no entry, and the entries have
\* the player ids, names, participations, promedio and raw saldo totals of the
\* ranking computed after removing the unresolvable results.
C5_UnresolvedGiveNoEntry ==
  call.fn = "computeRanking" =>
    LET clean == computeRanking(WithoutUnresolved(championships, players), players)
    IN /\ \A i \in DOMAIN ret : ret[i].playerId \in DirectoryIds(players)
       /\ Len(ret) = Len(clean)
       /\ {OwnTotals(ret[i]) : i \in DOMAIN ret} = {OwnTotals(clean[i]) : i \in DOMAIN clean}

\* an unresolvable result sits beside a ranked player's, and that player's
\* rating is not the one the cleaned championships give
C5_Witness ==
  /\ call.fn = "computeRanking"
  /\ "px" \in ResultIds(championships)
  /\ LET clean == computeRanking(WithoutUnresolved(championships, players), players)
     IN /\ Len(ret) = 1
        /\ Len(clean) = 1
        /\ OwnTotals(ret[1]) = OwnTotals(clean[1])
        /\ ret[1].rating # clean[1].rating

\* C6: capSaldoForRating(saldo) is saldo inside [-25, 25], 25 above it and -25
\* below it, and getTournamentScore(points, saldo) lies in
\* [points - 2.5, points + 2.5].
C6_SaldoCap ==
  call.fn = "getTournamentScore" =>
    /\ (-SALDO_CAP_PER_TOURNAMENT <= call.saldo /\ call.saldo <= SALDO_CAP_PER_TOURNAMENT
          => ret.capped = FromInt(call.saldo))
    /\ (call.saldo > SALDO_CAP_PER_TOURNAMENT
          => ret.capped = FromInt(SALDO_CAP_PER_TOURNAMENT))
    /\ (call.saldo < -SALDO_CAP_PER_TOURNAMENT
          => ret.capped = FromInt(-SALDO_CAP_PER_TOURNAMENT))
    /\ FLeq(FSub(FromInt(call.points), Decimal(25, 10)), ret.score)
    /\ FLeq(ret.score, FAdd(FromInt(call.points), Decimal(25, 10)))

\* a saldo above the cap and one below it have each been capped, and the score
\* of the one above sits on the upper end of the interval
C6_Witness ==
  /\ call.fn = "getTournamentScore"
  /\ call.saldo > SALDO_CAP_PER_TOURNAMENT
  /\ call.points > 0
  /\ ret.capped = FromInt(SALDO_CAP_PER_TOURNAMENT)
  /\ ret.score = FAdd(FromInt(call.points), Decimal(25, 10))

\* C7: a championship whose participants all have the same tournament score
\* (or that has one participant, or none) gets std = 0, and each of its
\* results a relative contribution of 0.
C7_ZeroDispersion ==
  call.fn = "computeChampionshipContexts" =>
    LET results == championships[1].results
        score(i) == getTournamentScore(results[i].points, results[i].saldo)
    IN (\A i, j \in DOMAIN results : score(i) = score(j)) =>
         /\ ret.context.std = Zero
         /\ \A i \in DOMAIN results : ret.contributions[i] = Zero

\* the arithmetic mean of a non-empty series: its elements added up in order,
\* divided by their number
ArithmeticMean(series) ==
  LET sumTo[k \in 0..Len(series)] ==
        IF k = 0 THEN Zero ELSE FAdd(sumTo[k - 1], series[k])
  IN FDiv(sumTo[Len(series)], FromInt(Len(series)))

\* the window computeMovingAverage is to use for a window size: at least 1
WindowOf(windowSize) == IF windowSize < 1 THEN 1 ELSE windowSize

\* C8: computeMovingAverage(series, windowSize) has the length of series, and its
\* element i is the mean of series[max(0, i-w+1) .. i], a window of at least one
\* and at most w values.
C8_MovingAverage ==
  call.fn = "computeMovingAverage" =>
    LET w == WindowOf(call.windowSize)
    IN /\ Len(ret) = Len(call.series)
       /\ \A i \in 1..Len(call.series) :
            LET first == IF i - w + 1 > 1 THEN i - w + 1 ELSE 1
            IN ret[i] = ArithmeticMean(SubSeq(call.series, first, i))

\* a window of 2 over a series of 3 different values: the first element averages
\* over one value, the last over two, and neither average is an element it covers
C8_Witness ==
  /\ call.fn = "computeMovingAverage"
  /\ call.windowSize = 2
  /\ Len(call.series) = 3
  /\ call.series[1] # call.series[2]
  /\ call.series[2] # call.series[3]
  /\ ret[1] = call.series[1]
  /\ ret[3] = ArithmeticMean(<<call.series[2], call.series[3]>>)
  /\ ret[3] # call.series[3]
  /\ ret[3] # call.series[2]

\* C9: computeMovingAverage(series, 1) is series, element for element.
C9_WindowOneIdentity ==
  (call.fn = "computeMovingAverage" /\ call.windowSize = 1) => ret = call.series

\* window 1 over a series whose elements are not all the same
C9_Witness ==
  /\ call.fn = "computeMovingAverage"
  /\ call.windowSize = 1
  /\ Len(call.series) >= 3
  /\ \E i, j \in DOMAIN call.series : call.series[i] # call.series[j]
  /\ ret = call.series

\* the number a digit character stands for
DigitValue(c) == CHOOSE n \in 0..9 : DigitChar(n) = c

\* the day of the year 2024 an ISO date or instant falls on, counting 31 days to
\* the month, and the hour of an instant
DayOf(iso) ==
  (10 * DigitValue(iso[6]) + DigitValue(iso[7])) * 31
  + 10 * DigitValue(iso[9]) + DigitValue(iso[10])
HourOf(instant) == 10 * DigitValue(instant[12]) + DigitValue(instant[13])
InstantOf(instant) == DayOf(instant) * 24 + HourOf(instant)

\* the championship of the store with the given id (ids are unique in the stores)
ChampionshipById(chs, id) == chs[CHOOSE i \in DOMAIN chs : chs[i].id = id]

\* C10: getPlayerTimeline(playerId) emits exactly one point for each championship
\* that holds a result of the player and none for any other, in ascending order
\* of (date, createdAt).
C10_TimelineChronological ==
  call.fn = "getPlayerTimeline" =>
    LET with == {i \in DOMAIN championships :
                   \E k \in DOMAIN championships[i].results :
                     championships[i].results[k].playerId = call.playerId}
        of(k) == ChampionshipById(championships, ret[k].championshipId)
    IN /\ Len(ret) = Cardinality(with)
       /\ {ret[k].championshipId : k \in DOMAIN ret} = {championships[i].id : i \in with}
       /\ \A k, l \in DOMAIN ret :
            k < l =>
              \/ DayOf(of(k).date) < DayOf(of(l).date)
              \/ /\ DayOf(of(k).date) = DayOf(of(l).date)
                 /\ InstantOf(of(k).createdAt) <= InstantOf(of(l).createdAt)

\* three championships listed latest first, one of them without the player: two
\* points, in the opposite order to the list; the two share the date and the
\* creation time decides
C10_Witness ==
  /\ call.fn = "getPlayerTimeline"
  /\ call.playerId = "p1"
  /\ Len(championships) = 3
  /\ Len(ret) = 2
  /\ ret[1].championshipId = "c3"
  /\ ret[2].championshipId = "c1"
  /\ championships[1].date = championships[3].date
  /\ championships[1].createdAt # championships[3].createdAt

\* the adjustedRating of the player's first k participations: the totals of the
\* player's results in the championships of the first k points, added up in
\* the order of the points, with the contexts of the whole store
AdjustedAfter(chs, playerId, points, k) ==
  LET own == [j \in 1..k |->
                LET championship == ChampionshipById(chs, points[j].championshipId)
                IN [championshipId |-> championship.id,
                    result |-> championship.results[FindResult(championship.results,
                                                               playerId)]]]
      row == statsMapFrom(<<>>, own, computeChampionshipContexts(chs))[1]
      rawRating == computeRawRating(row.pointsTotal, row.saldoTotalForRating, k)
  IN FAdd(rawRating, FDiv(row.relativeTotal, FromInt(k)))

\* C11: in the timeline of getPlayerTimeline the first point's rating is
\* adjustedRating * 1/3 + baseline * 2/3 of that one tournament, and the rating of
\* every later point k is the adjustedRating of the first k participations, with
\* no baseline term.
C11_TimelineShrinksFirstOnly ==
  call.fn = "getPlayerTimeline" =>
    LET baseline == computeGlobalBaselineScore(championships)
        third == FDiv(FromInt(1), FromInt(3))
    IN \A k \in DOMAIN ret :
         LET adjusted == AdjustedAfter(championships, call.playerId, ret, k)
         IN IF k = 1
            THEN ret[k].rating = FAdd(FMul(adjusted, third),
                                      FMul(baseline, FSub(FromInt(1), third)))
            ELSE ret[k].rating = adjusted

\* a timeline of three points: the first is pulled toward a baseline that is not
\* its adjustedRating, the second and third are not, though theirs differ from
\* the baseline too
C11_Witness ==
  /\ call.fn = "getPlayerTimeline"
  /\ Len(ret) = 3
  /\ LET baseline == computeGlobalBaselineScore(championships)
     IN /\ AdjustedAfter(championships, call.playerId, ret, 1) # baseline
        /\ ret[1].rating # AdjustedAfter(championships, call.playerId, ret, 1)
        /\ \A k \in 2..3 :
             /\ AdjustedAfter(championships, call.playerId, ret, k) # baseline
             /\ ret[k].rating = AdjustedAfter(championships, call.playerId, ret, k)

\* the relative contribution the ranking adds for a result of the one championship
ScenarioContribution(result) ==
  computeRelativeContribution(
    getTournamentScore(result.points, result.saldo),
    computeChampionshipContexts(championships)[championships[1].id])

\* C12: with the single tournament of X (100, +10) and Y (80, -5) the scores are
\* 101 and 79.5, the context has mean 90.25 and std 10.75, the baseline is 90.25,
\* the relative contributions are opposite with X's positive, and computeRanking
\* places X above Y.
C12_ConcreteScenario ==
  call.fn = "computeRanking" =>
    LET context == computeChampionshipContexts(championships)[championships[1].id]
    IN /\ getTournamentScore(ScenarioX.points, ScenarioX.saldo) = Round(101, 0)
       /\ getTournamentScore(ScenarioY.points, ScenarioY.saldo) = Round(159, -1)
       /\ context.mean = Round(361, -2)
       /\ context.std = Round(43, -2)
       /\ computeGlobalBaselineScore(championships) = Round(361, -2)
       /\ ScenarioContribution(ScenarioX) = FNeg(ScenarioContribution(ScenarioY))
       /\ FLess(Zero, ScenarioContribution(ScenarioX))
       /\ Len(ret) = 2
       /\ ret[1].playerId = ScenarioX.playerId
       /\ ret[2].playerId = ScenarioY.playerId

\* Y's result is stored before X's and Y's name sorts before X's: the ranking
\* has X first all the same
C12_Witness ==
  /\ call.fn = "computeRanking"
  /\ championships[1].results = <<ScenarioY, ScenarioX>>
  /\ Len(ret) = 2
  /\ ret[1].playerId = "p1"
  /\ localeCompare(ret[2].name, ret[1].name) < 0
  /\ FLess(ret[2].rating, ret[1].rating)

\* the results of every championship reference different players
DistinctPlayers(chs) ==
  \A i \in DOMAIN chs :
    \A k, l \in DOMAIN chs[i].results :
      k # l => chs[i].results[k].playerId # chs[i].results[l].playerId

\* C17: when every championship's results reference different players, the last
\* point of a ranked player's timeline has the rating of the player's ranking
\* entry, and the timeline has as many points as the entry has participations,
\* whatever the order of the championship list.
C17_TimelineAgreesWithRanking ==
  (call.fn = "renderAll" /\ DistinctPlayers(championships)) =>
    \A i \in DOMAIN ret.ranking :
      ret.ranking[i].playerId = call.selectedPlayerId =>
        /\ Len(ret.timeline) = ret.ranking[i].championships
        /\ ret.timeline[Len(ret.timeline)].rating = ret.ranking[i].rating


\* C18: a submission of the form rejected for a missing name or date, an empty
\* player name, points or a saldo that are not numbers, or a repeated player
\* leaves state.data (players and championships) as it was.
C18_RejectedLeavesDataUnchanged ==
  [][(/\ call'.fn = "submit"
      /\ ret'.error \in {"name", "date", "playerName", "points", "saldo", "repeated"})
     => (players' = players /\ championships' = championships)]_vars

\* C14: no two players of state.data.players have the same normalized name,
\* after any sequence of submissions, name-editor saves and deletions.
C14_NamesStayUnique ==
  \A i, j \in DOMAIN players :
    i # j => normalizeName(players[i].name) # normalizeName(players[j].name)

\* C15: the results of every stored championship have pairwise distinct player
\* ids, after any sequence of creations, updates and deletions through the form.
C15_StoredPlayersDistinct ==
  \A n \in DOMAIN championships :
    \A i, j \in DOMAIN championships[n].results :
      i # j => championships[n].results[i].playerId # championships[n].results[j].playerId

\* an accepted submission has stored a championship of two results
C15_Witness ==
  /\ call.fn = "submit"
  /\ ret.error = ""
  /\ ui.created = MaxCreated
  /\ \E n \in DOMAIN championships :
       /\ Len(championships[n].results) = 2
       /\ championships[n].createdAt = IsoInstant(3, 1, 1)
       /\ Len(players) = 2


\* C16: whenever the player detail is drawn for a player with a timeline, the
\* trend shows min(state.playerTrendLimit, timeline length) points, at least
\* one, and the window given to computeMovingAverage is a whole number from 1
\* to the number of points shown.
C16_TrendAndWindowInRange ==
  (ui.detail.shown /\ ui.detail.timelineLength >= 1) =>
    /\ FromInt(ui.detail.trendPoints)
         = FMin(ui.playerTrendLimit, FromInt(ui.detail.timelineLength))
    /\ ui.detail.trendPoints >= 1
    /\ FromInt(FTrunc(ui.detail.movingAvgWindow)) = ui.detail.movingAvgWindow
    /\ FLeq(FromInt(1), ui.detail.movingAvgWindow)
    /\ FLeq(ui.detail.movingAvgWindow, FromInt(ui.detail.trendPoints))


===========================================================================
